---- MODULE Spec2Model ----
(***************************************************************************)
(* Model of the VLisp front end (examples/VLisp/VLisp.cpp): tokenize, the  *)
(* helper search, the lambda appendText, getLists and the part of parse    *)
(* that calls them.  Pointers into the source buffer are 1-based indices   *)
(* into text; the terminating NUL is the index Len(text) + 1.  A failing   *)
(* assert aborts the program: pc = "aborted" and err holds its message.    *)
(***************************************************************************)
EXTENDS Integers, Sequences, FiniteSets, TLC

VARIABLES
  text,       \* parse: source, the whole input read into memory
  pc,         \* where parse is: "tokenize", "tokenized", "getLists",
              \* "parsed", or "aborted" after a failed assert
  err,        \* the message of the failed assert, NoErr otherwise
  pStart,     \* tokenize: start of the pending text run
  pEnd,       \* tokenize: the scan cursor
  inString,   \* tokenize: inside a string literal
  outArray,   \* tokenize: the tokens produced so far
  tokens,     \* parse: the token array tokenize returned
  nodes,      \* the ListNode objects allocated so far, by address 1, 2, ...
  nodeStack,  \* getLists: the stack of ancestor nodes
  curNode,    \* getLists: the current list
  tokIdx,     \* getLists: position of the range-for over tokens
  listRoot    \* parse: the tree getLists returned, NULL before

vars == <<text, pc, err, pStart, pEnd, inString, outArray, tokens,
          nodes, nodeStack, curNode, tokIdx, listRoot>>

tokenizeVars == <<pStart, pEnd, inString, outArray>>
getListsVars == <<nodes, nodeStack, curNode, tokIdx>>

(***************************************************************************)
(* Inputs: source texts are concatenations of at most MaxPieces pieces.    *)
(***************************************************************************)
MaxPieces == 4

Pieces ==
  { <<" ">>, <<"(">>, <<")">>, <<"\"">>,
    <<"4", "2">>, <<"3", ".", "5">>, <<"a", "b", "c">>,
    <<"i", "3", "2">>, <<"f", "3", "2">> }

RECURSIVE Texts(_)
Texts(n) ==
  IF n = 0 THEN { <<>> }
  ELSE LET shorter == Texts(n - 1)
       IN  shorter \cup { t \o p : t \in shorter, p \in Pieces }

NUL == "NUL"

\* *p for a pointer p into the NUL-terminated buffer
CharAt(txt, i) == IF i >= 1 /\ i <= Len(txt) THEN txt[i] ELSE NUL

NULL == 0

(***************************************************************************)
(* search (VLisp.cpp:91-107): the first position in [pBegin, pEnd) where   *)
(* the whole pattern occurs without running past pEnd, or NULL.            *)
(***************************************************************************)
\* the inner loop: how many pattern characters match from pIter before a
\* mismatch, the end of the pattern or pEnd stops it; match is FALSE on a
\* mismatch
RECURSIVE searchInner(_, _, _, _, _)
searchInner(txt, pIter, pEndArg, pPat, offset) ==
  IF offset < Len(pPat) /\ pIter + offset # pEndArg
  THEN IF pPat[offset + 1] # CharAt(txt, pIter + offset)
       THEN [match |-> FALSE, offset |-> offset]
       ELSE searchInner(txt, pIter, pEndArg, pPat, offset + 1)
  ELSE [match |-> TRUE, offset |-> offset]

RECURSIVE searchFrom(_, _, _, _)
searchFrom(txt, pIter, pEndArg, pPat) ==
  IF pIter = pEndArg THEN NULL
  ELSE LET r == searchInner(txt, pIter, pEndArg, pPat, 0)
       IN  IF r.match /\ r.offset = Len(pPat) THEN pIter
           ELSE searchFrom(txt, pIter + 1, pEndArg, pPat)

\* search that looks for the pattern at the end of the range only
searchAtEnd(txt, pBegin, pEndArg, pPat) ==
  IF /\ pEndArg - pBegin >= Len(pPat)
     /\ \A j \in 1..Len(pPat) : CharAt(txt, pEndArg - Len(pPat) + j - 1) = pPat[j]
  THEN pEndArg - Len(pPat)
  ELSE NULL

search(txt, pBegin, pEndArg, pPat) == searchFrom(txt, pBegin, pEndArg, pPat)

(***************************************************************************)
(* strtol(p, &end, 10) and strtof(p, &end) as tokenize calls them: both    *)
(* read the buffer from p onwards (not only up to pEnd), skip leading      *)
(* white space, accept a sign, and leave end = p when no digit is found.   *)
(* Digit runs of the inputs stay below 10 digits, so the long result fits  *)
(* int32_t unchanged.  The float value is kept as the exact decimal        *)
(* m * 10^e (m without trailing zeros); the exponent, hexadecimal, inf and *)
(* nan forms of strtof need the characters e, x, 0, n, which no input      *)
(* contains.                                                               *)
(***************************************************************************)
DigitVal ==
  [c \in {"0", "1", "2", "3", "4", "5", "6", "7", "8", "9"} |->
     CASE c = "0" -> 0 [] c = "1" -> 1 [] c = "2" -> 2 [] c = "3" -> 3
       [] c = "4" -> 4 [] c = "5" -> 5 [] c = "6" -> 6 [] c = "7" -> 7
       [] c = "8" -> 8 [] c = "9" -> 9]

IsDigit(c) == c \in DOMAIN DigitVal

IsSpace(c) == c \in {" ", "\t", "\n", "\r", "\f"}

RECURSIVE SkipSpace(_, _)
SkipSpace(txt, i) ==
  IF IsSpace(CharAt(txt, i)) THEN SkipSpace(txt, i + 1) ELSE i

RECURSIVE DigitsEnd(_, _)
DigitsEnd(txt, i) ==
  IF IsDigit(CharAt(txt, i)) THEN DigitsEnd(txt, i + 1) ELSE i

\* the number written by the digits of txt in [i, j), continuing from acc
RECURSIVE DigitsVal(_, _, _, _)
DigitsVal(txt, i, j, acc) ==
  IF i >= j THEN acc
  ELSE DigitsVal(txt, i + 1, j, acc * 10 + DigitVal[txt[i]])

strtol(txt, p) ==
  LET a    == SkipSpace(txt, p)
      neg  == CharAt(txt, a) = "-"
      b    == IF CharAt(txt, a) \in {"+", "-"} THEN a + 1 ELSE a
      e    == DigitsEnd(txt, b)
      v    == DigitsVal(txt, b, e, 0)
  IN  IF e = b THEN [val |-> 0, end |-> p]
      ELSE [val |-> IF neg THEN 0 - v ELSE v, end |-> e]

RECURSIVE Normalize(_, _)
Normalize(m, e) ==
  IF m = 0 THEN [m |-> 0, e |-> 0]
  ELSE IF m % 10 = 0 /\ e < 0 THEN Normalize(m \div 10, e + 1)
  ELSE [m |-> m, e |-> e]

FloatZero == [m |-> 0, e |-> 0]

strtof(txt, p) ==
  LET a     == SkipSpace(txt, p)
      neg   == CharAt(txt, a) = "-"
      b     == IF CharAt(txt, a) \in {"+", "-"} THEN a + 1 ELSE a
      i1    == DigitsEnd(txt, b)
      dot   == CharAt(txt, i1) = "."
      i2    == IF dot THEN DigitsEnd(txt, i1 + 1) ELSE i1
      nInt  == i1 - b
      nFrac == IF dot THEN i2 - (i1 + 1) ELSE 0
      mant  == DigitsVal(txt, i1 + 1, i2, DigitsVal(txt, b, i1, 0))
      v     == Normalize(mant, 0 - nFrac)
  IN  IF nInt + nFrac = 0 THEN [val |-> FloatZero, end |-> p]
      ELSE [val |-> [m |-> IF neg THEN 0 - v.m ELSE v.m, e |-> v.e],
            end |-> i2]

(***************************************************************************)
(* Token (VLisp.cpp:45-51) and the lambda appendText (VLisp.cpp:113-131).  *)
(***************************************************************************)
NoErr == "none"

Token(type, s, e, f, i) ==
  [type |-> type, pStart |-> s, pEnd |-> e, f32 |-> f, i32 |-> i]

PatF32 == <<"f", "3", "2">>
PatI32 == <<"i", "3", "2">>

\* the classification of the run [s, e) (VLisp.cpp:115-129)
appendTextRun(txt, out, s, e) ==
    LET pF == search(txt, s, e, PatF32)
        pI == search(txt, s, e, PatI32)
    IN  IF pF # NULL THEN
          IF pF # e - 3
          THEN [out |-> out, err |-> "f32 should be at the end"]
          ELSE LET r == strtof(txt, s)
               IN  IF r.end # e - 3
                   THEN [out |-> out, err |-> "error parsing f32"]
                   ELSE [out |-> Append(out, Token("F32", s, r.end, r.val, 0)),
                         err |-> NoErr]
        ELSE IF pI # NULL THEN
          IF pI # e - 3
          THEN [out |-> out, err |-> "i32 should be at the end"]
          ELSE LET r == strtol(txt, s)
               IN  IF r.end # e - 3
                   THEN [out |-> out, err |-> "error parsing i32"]
                   ELSE [out |-> Append(out, Token("I32", s, r.end, FloatZero, r.val)),
                         err |-> NoErr]
        ELSE [out |-> Append(out, Token("NAME", s, e, FloatZero, 0)),
              err |-> NoErr]

\* appendText without the test pStart != pEnd
appendTextAlways(txt, out, s, e) == appendTextRun(txt, out, s, e)

appendText(txt, out, s, e) ==
  IF s # e THEN appendTextRun(txt, out, s, e)
  ELSE [out |-> out, err |-> NoErr]

(***************************************************************************)
(* tokenize (VLisp.cpp:109-175): one action for each case of the switch,   *)
(* each one iteration of the while loop, and one for the code after it.    *)
(***************************************************************************)
Abort(msg) == pc' = "aborted" /\ err' = msg

\* ScanDelimiter without the test of inString
ScanDelimiterInString(type) ==
  LET r == appendText(text, outArray, pStart, pEnd)
  IN  IF r.err # NoErr
      THEN /\ Abort(r.err)
           /\ UNCHANGED tokenizeVars
      ELSE /\ outArray' = IF type = "none" THEN r.out
                          ELSE Append(r.out,
                                 Token(type, pEnd, pEnd + 1, FloatZero, 0))
           /\ pStart' = pEnd + 1
           /\ pEnd' = pEnd + 1
           /\ UNCHANGED <<pc, err, inString>>

\* ScanDelimiter that forgets to restart the run after the delimiter
ScanDelimiterKeepStart(type) ==
  IF inString
  THEN /\ pEnd' = pEnd + 1
       /\ UNCHANGED <<pc, err, pStart, inString, outArray>>
  ELSE LET r == appendText(text, outArray, pStart, pEnd)
       IN  IF r.err # NoErr
           THEN /\ Abort(r.err)
                /\ UNCHANGED tokenizeVars
           ELSE /\ outArray' = IF type = "none" THEN r.out
                               ELSE Append(r.out,
                                      Token(type, pEnd, pEnd + 1, FloatZero, 0))
                /\ pEnd' = pEnd + 1
                /\ UNCHANGED <<pc, err, pStart, inString>>

\* the three delimiter cases share their shape: appendText, an optional
\* one-character token at the cursor, pStart = pEnd + 1, then pEnd++
ScanDelimiter(type) ==
  IF inString
  THEN /\ pEnd' = pEnd + 1
       /\ UNCHANGED <<pc, err, pStart, inString, outArray>>
  ELSE LET r == appendText(text, outArray, pStart, pEnd)
       IN  IF r.err # NoErr
           THEN /\ Abort(r.err)
                /\ UNCHANGED tokenizeVars
           ELSE /\ outArray' = IF type = "none" THEN r.out
                               ELSE Append(r.out,
                                      Token(type, pEnd, pEnd + 1, FloatZero, 0))
                /\ pStart' = pEnd + 1
                /\ pEnd' = pEnd + 1
                /\ UNCHANGED <<pc, err, inString>>

ScanSpace ==
  /\ pc = "tokenize"
  /\ CharAt(text, pEnd) \in {" ", "\n", "\r", "\t"}
  /\ ScanDelimiter("none")
  /\ UNCHANGED <<text, tokens, listRoot>>
  /\ UNCHANGED getListsVars

ScanLeftParen ==
  /\ pc = "tokenize"
  /\ CharAt(text, pEnd) = "("
  /\ ScanDelimiter("LP")
  /\ UNCHANGED <<text, tokens, listRoot>>
  /\ UNCHANGED getListsVars

ScanRightParen ==
  /\ pc = "tokenize"
  /\ CharAt(text, pEnd) = ")"
  /\ ScanDelimiter("RP")
  /\ UNCHANGED <<text, tokens, listRoot>>
  /\ UNCHANGED getListsVars

\* ScanQuote that leaves the cursor on the quote that opens a string
ScanQuoteNoAdvance ==
  /\ pc = "tokenize"
  /\ CharAt(text, pEnd) = "\""
  /\ IF inString
     THEN /\ outArray' = Append(outArray,
                           Token("STRING", pStart, pEnd, FloatZero, 0))
          /\ inString' = FALSE
          /\ pStart' = pEnd + 1
          /\ pEnd' = pEnd + 1
          /\ UNCHANGED <<pc, err>>
     ELSE LET r == appendText(text, outArray, pStart, pEnd)
          IN  IF r.err # NoErr
              THEN /\ Abort(r.err)
                   /\ UNCHANGED tokenizeVars
              ELSE /\ outArray' = r.out
                   /\ inString' = TRUE
                   /\ pStart' = pEnd + 1
                   /\ pEnd' = pEnd
                   /\ UNCHANGED <<pc, err>>
  /\ UNCHANGED <<text, tokens, listRoot>>
  /\ UNCHANGED getListsVars

ScanQuote ==
  /\ pc = "tokenize"
  /\ CharAt(text, pEnd) = "\""
  /\ IF inString
     THEN /\ outArray' = Append(outArray,
                           Token("STRING", pStart, pEnd, FloatZero, 0))
          /\ inString' = FALSE
          /\ pStart' = pEnd + 1
          /\ pEnd' = pEnd + 1
          /\ UNCHANGED <<pc, err>>
     ELSE LET r == appendText(text, outArray, pStart, pEnd)
          IN  IF r.err # NoErr
              THEN /\ Abort(r.err)
                   /\ UNCHANGED tokenizeVars
              ELSE /\ outArray' = r.out
                   /\ inString' = TRUE
                   /\ pStart' = pEnd + 1
                   /\ pEnd' = pEnd + 1
                   /\ UNCHANGED <<pc, err>>
  /\ UNCHANGED <<text, tokens, listRoot>>
  /\ UNCHANGED getListsVars

ScanOther ==
  /\ pc = "tokenize"
  /\ CharAt(text, pEnd) \notin {NUL, " ", "\n", "\r", "\t", "(", ")", "\""}
  /\ pEnd' = pEnd + 1
  /\ UNCHANGED <<text, pc, err, pStart, inString, outArray, tokens, listRoot>>
  /\ UNCHANGED getListsVars

\* TokenizeReturn without the assert on inString
TokenizeReturnNoAssert ==
  /\ pc = "tokenize"
  /\ CharAt(text, pEnd) = NUL
  /\ pc' = "tokenized"
  /\ tokens' = outArray
  /\ UNCHANGED <<text, err, listRoot>>
  /\ UNCHANGED tokenizeVars
  /\ UNCHANGED getListsVars

\* the loop has ended: the assert, then the return into parse's tokens
TokenizeReturn ==
  /\ pc = "tokenize"
  /\ CharAt(text, pEnd) = NUL
  /\ IF inString
     THEN /\ Abort("unmatched quotes")
          /\ UNCHANGED tokens
     ELSE /\ pc' = "tokenized"
          /\ tokens' = outArray
          /\ UNCHANGED err
  /\ UNCHANGED <<text, listRoot>>
  /\ UNCHANGED tokenizeVars
  /\ UNCHANGED getListsVars

(***************************************************************************)
(* tokenize as a function of the text: the same loop run to its end on a   *)
(* record of tokenize's locals, for properties that compare the results of *)
(* two texts.  TokenizeAgrees below ties it to the actions.                *)
(***************************************************************************)
ScanStart ==
  [pStart |-> 1, pEnd |-> 1, inString |-> FALSE, outArray |-> <<>>, err |-> NoErr]

\* one iteration of the while loop (VLisp.cpp:134-171)
scanStep(txt, st) ==
  LET c == CharAt(txt, st.pEnd)
      r == appendText(txt, st.outArray, st.pStart, st.pEnd)
      advance == [st EXCEPT !.pEnd = st.pEnd + 1]
      closeRun(out, str) ==
        [pStart |-> st.pEnd + 1, pEnd |-> st.pEnd + 1, inString |-> str,
         outArray |-> out, err |-> NoErr]
      paren == Token(IF c = "(" THEN "LP" ELSE "RP", st.pEnd, st.pEnd + 1, FloatZero, 0)
  IN  IF c \in {" ", "\n", "\r", "\t", "(", ")"} THEN
        IF st.inString THEN advance
        ELSE IF r.err # NoErr THEN [st EXCEPT !.err = r.err]
        ELSE closeRun(IF c \in {"(", ")"} THEN Append(r.out, paren) ELSE r.out, FALSE)
      ELSE IF c = "\"" THEN
        IF st.inString
        THEN closeRun(Append(st.outArray,
                        Token("STRING", st.pStart, st.pEnd, FloatZero, 0)), FALSE)
        ELSE IF r.err # NoErr THEN [st EXCEPT !.err = r.err]
        ELSE closeRun(r.out, TRUE)
      ELSE advance

RECURSIVE tokenizeFrom(_, _)
tokenizeFrom(txt, st) ==
  IF st.err # NoErr THEN st
  ELSE IF CharAt(txt, st.pEnd) = NUL
       THEN IF st.inString THEN [st EXCEPT !.err = "unmatched quotes"] ELSE st
       ELSE tokenizeFrom(txt, scanStep(txt, st))

tokenize(txt) == tokenizeFrom(txt, ScanStart)

(***************************************************************************)
(* ListNode (VLisp.cpp:177-182) and getLists (VLisp.cpp:197-227).          *)
(* `new ListNode` default-initializes: isList and token of the new object  *)
(* are indeterminate until assigned.  getLists assigns isList of the root  *)
(* only, so isList of a node made for a left parenthesis reads as either   *)
(* value; an indeterminate token reads as all-zero memory or as a stale    *)
(* copy of a token.                                                        *)
(***************************************************************************)
ZeroToken == Token("NAME", NULL, NULL, FloatZero, 0)

IndeterminateToken(k) ==
  {ZeroToken} \cup (IF k \in DOMAIN tokens THEN {tokens[k]} ELSE {})

ListNode(isList, token) == [isList |-> isList, token |-> token, child |-> <<>>]

GetListsEnter ==
  /\ pc = "tokenized"
  /\ \E t \in IndeterminateToken(1) :
       nodes' = <<ListNode(TRUE, t)>>
  /\ nodeStack' = <<>>
  /\ curNode' = 1
  /\ tokIdx' = 1
  /\ pc' = "getLists"
  /\ UNCHANGED <<text, err, tokens, listRoot>>
  /\ UNCHANGED tokenizeVars

\* BuildLeftParen that pushes the new node instead of the current list
BuildLeftParenPushNew ==
  /\ pc = "getLists"
  /\ tokIdx \in DOMAIN tokens
  /\ tokens[tokIdx].type = "LP"
  /\ \E b \in BOOLEAN, t \in IndeterminateToken(tokIdx) :
       LET newNode == Len(nodes) + 1
       IN  /\ nodes' = Append([nodes EXCEPT ![curNode].child = Append(@, newNode)],
                              ListNode(b, t))
           /\ nodeStack' = Append(nodeStack, newNode)
           /\ curNode' = newNode
  /\ tokIdx' = tokIdx + 1
  /\ UNCHANGED <<text, pc, err, tokens, listRoot>>
  /\ UNCHANGED tokenizeVars

BuildLeftParen ==
  /\ pc = "getLists"
  /\ tokIdx \in DOMAIN tokens
  /\ tokens[tokIdx].type = "LP"
  /\ \E b \in BOOLEAN, t \in IndeterminateToken(tokIdx) :
       LET newNode == Len(nodes) + 1
       IN  /\ nodes' = Append([nodes EXCEPT ![curNode].child = Append(@, newNode)],
                              ListNode(b, t))
           /\ nodeStack' = Append(nodeStack, curNode)
           /\ curNode' = newNode
  /\ tokIdx' = tokIdx + 1
  /\ UNCHANGED <<text, pc, err, tokens, listRoot>>
  /\ UNCHANGED tokenizeVars

\* BuildRightParen without the assert: an unmatched RightParen is skipped
BuildRightParenNoAssert ==
  /\ pc = "getLists"
  /\ tokIdx \in DOMAIN tokens
  /\ tokens[tokIdx].type = "RP"
  /\ IF Len(nodeStack) = 0
     THEN UNCHANGED <<nodeStack, curNode>>
     ELSE /\ curNode' = nodeStack[Len(nodeStack)]
          /\ nodeStack' = SubSeq(nodeStack, 1, Len(nodeStack) - 1)
  /\ tokIdx' = tokIdx + 1
  /\ UNCHANGED <<text, pc, err, tokens, nodes, listRoot>>
  /\ UNCHANGED tokenizeVars

BuildRightParen ==
  /\ pc = "getLists"
  /\ tokIdx \in DOMAIN tokens
  /\ tokens[tokIdx].type = "RP"
  /\ IF Len(nodeStack) = 0
     THEN /\ Abort("unbalanced parentheses")
          /\ UNCHANGED <<nodeStack, curNode, tokIdx>>
     ELSE /\ curNode' = nodeStack[Len(nodeStack)]
          /\ nodeStack' = SubSeq(nodeStack, 1, Len(nodeStack) - 1)
          /\ tokIdx' = tokIdx + 1
          /\ UNCHANGED <<pc, err>>
  /\ UNCHANGED <<text, tokens, nodes, listRoot>>
  /\ UNCHANGED tokenizeVars

BuildAtom ==
  /\ pc = "getLists"
  /\ tokIdx \in DOMAIN tokens
  /\ tokens[tokIdx].type \notin {"LP", "RP"}
  /\ nodes' = Append([nodes EXCEPT ![curNode].child = Append(@, Len(nodes) + 1)],
                     ListNode(FALSE, tokens[tokIdx]))
  /\ tokIdx' = tokIdx + 1
  /\ UNCHANGED <<text, pc, err, tokens, nodeStack, curNode, listRoot>>
  /\ UNCHANGED tokenizeVars

GetListsReturn ==
  /\ pc = "getLists"
  /\ tokIdx = Len(tokens) + 1
  /\ listRoot' = 1
  /\ pc' = "parsed"
  /\ UNCHANGED <<text, err, tokens>>
  /\ UNCHANGED tokenizeVars
  /\ UNCHANGED getListsVars

(***************************************************************************)
(* parse (VLisp.cpp:259-266): the source is read whole, then tokenize,     *)
(* then getLists.                                                          *)
(***************************************************************************)
Init ==
  /\ text \in Texts(MaxPieces)
  /\ pc = "tokenize"
  /\ err = NoErr
  /\ pStart = 1
  /\ pEnd = 1
  /\ inString = FALSE
  /\ outArray = <<>>
  /\ tokens = <<>>
  /\ nodes = <<>>
  /\ nodeStack = <<>>
  /\ curNode = NULL
  /\ tokIdx = 0
  /\ listRoot = NULL

Next ==
  \/ ScanSpace
  \/ ScanLeftParen
  \/ ScanRightParen
  \/ ScanQuote
  \/ ScanOther
  \/ TokenizeReturn
  \/ GetListsEnter
  \/ BuildLeftParen
  \/ BuildRightParen
  \/ BuildAtom
  \/ GetListsReturn

Spec == Init /\ [][Next]_vars

\* parse is sequential code: whenever a step is possible it is taken.
\* Termination is checked on the texts of at most MaxFairPieces pieces.
MaxFairPieces == 3

InitFair ==
  /\ text \in Texts(MaxFairPieces)
  /\ pc = "tokenize"
  /\ err = NoErr
  /\ pStart = 1
  /\ pEnd = 1
  /\ inString = FALSE
  /\ outArray = <<>>
  /\ tokens = <<>>
  /\ nodes = <<>>
  /\ nodeStack = <<>>
  /\ curNode = NULL
  /\ tokIdx = 0
  /\ listRoot = NULL

FairSpec == InitFair /\ [][Next]_vars /\ WF_vars(Next)

(***************************************************************************)
(* The same program on source texts that use every white space character   *)
(* tokenize knows (VLisp.cpp:135-138).                                     *)
(***************************************************************************)
PiecesWS ==
  { <<" ">>, <<"\t">>, <<"\n">>, <<"\r">>,
    <<"(">>, <<")">>, <<"\"">>, <<"4", "2">> }

RECURSIVE TextsWS(_)
TextsWS(n) ==
  IF n = 0 THEN { <<>> }
  ELSE LET shorter == TextsWS(n - 1)
       IN  shorter \cup { t \o p : t \in shorter, p \in PiecesWS }

InitWS ==
  /\ text \in TextsWS(MaxPieces)
  /\ pc = "tokenize"
  /\ err = NoErr
  /\ pStart = 1
  /\ pEnd = 1
  /\ inString = FALSE
  /\ outArray = <<>>
  /\ tokens = <<>>
  /\ nodes = <<>>
  /\ nodeStack = <<>>
  /\ curNode = NULL
  /\ tokIdx = 0
  /\ listRoot = NULL

SpecWS == InitWS /\ [][Next]_vars

(***************************************************************************)
(* Vocabulary of the properties, defined on the source text and the token  *)
(* sequence alone, independently of the scanner's code.                    *)
(***************************************************************************)
Quote == "\""
Whitespace == {" ", "\n", "\r", "\t"}
Delimiters == Whitespace \cup {"(", ")", Quote}
LexErrors == {"f32 should be at the end", "error parsing f32",
              "i32 should be at the end", "error parsing i32",
              "unmatched quotes"}
RunErrors == LexErrors \ {"unmatched quotes"}

\* number of double quotes among the first n characters
QuotesIn(txt, n) == Cardinality({j \in 1..n : j <= Len(txt) /\ txt[j] = Quote})
OddQuotes(txt) == QuotesIn(txt, Len(txt)) % 2 = 1

\* position i holds a character of a text run: outside a string literal and
\* neither white space, parenthesis nor quote
RunChar(txt, i) ==
  /\ i \in 1..Len(txt)
  /\ txt[i] \notin Delimiters
  /\ QuotesIn(txt, i - 1) % 2 = 0

\* the first position from i on that holds no character of a text run
RECURSIVE RunStop(_, _)
RunStop(txt, i) == IF RunChar(txt, i) THEN RunStop(txt, i + 1) ELSE i

\* the maximal runs, as pairs <<s, e>> for the characters s .. e - 1
MaximalRuns(txt) ==
  { <<s, RunStop(txt, s)>> :
      s \in {i \in 1..Len(txt) : RunChar(txt, i) /\ ~RunChar(txt, i - 1)} }

TextKinds == {"NAME", "I32", "F32"}

TokenizeReturned == pc \in {"tokenized", "getLists", "parsed"}
TokenizeOver == pc # "tokenize"

T_42i32 == <<"4", "2", "i", "3", "2">>
T_35f32 == <<"3", ".", "5", "f", "3", "2">>
T_42 == <<"4", "2">>
T_abci32 == <<"a", "b", "c", "i", "3", "2">>

\* C1: every maximal run of non-delimiter characters outside a string
\* literal yields exactly one token of tokenize's output, also when the end
\* of the input ends it: "42i32" yields one Int32 token of value 42,
\* "3.5f32" one Float32 token of value 3.5, "42" one Name token, and
\* "abci32" a lex error.
C1_EveryRunYieldsOneToken ==
  /\ TokenizeReturned =>
       \A r \in MaximalRuns(text) :
         Cardinality({k \in DOMAIN tokens :
                        /\ tokens[k].type \in TextKinds
                        /\ tokens[k].pStart = r[1]}) = 1
  /\ (text = T_42i32 /\ TokenizeOver) =>
       /\ pc # "aborted"
       /\ tokens = <<Token("I32", 1, 3, FloatZero, 42)>>
  /\ (text = T_35f32 /\ TokenizeOver) =>
       /\ pc # "aborted"
       /\ tokens = <<Token("F32", 1, 4, [m |-> 35, e |-> 0 - 1], 0)>>
  /\ (text = T_42 /\ TokenizeOver) =>
       /\ pc # "aborted"
       /\ tokens = <<Token("NAME", 1, 3, FloatZero, 0)>>
  /\ (text = T_abci32 /\ TokenizeOver) =>
       /\ pc = "aborted"
       /\ err \in RunErrors

(***************************************************************************)
(* Parenthesis balance of a token sequence.                                *)
(***************************************************************************)
\* left minus right parentheses among the first n tokens
Balance(toks, n) ==
  Cardinality({k \in 1..n : toks[k].type = "LP"})
    - Cardinality({k \in 1..n : toks[k].type = "RP"})

\* some LeftParen has no later matching RightParen
UnmatchedLeftParen(toks) ==
  \E k \in DOMAIN toks :
    /\ toks[k].type = "LP"
    /\ \A j \in k..Len(toks) : Balance(toks, j) - Balance(toks, k - 1) > 0

\* the first position whose prefix holds more right than left parentheses,
\* 0 when there is none
FirstUnmatchedRightParen(toks) ==
  IF \E k \in DOMAIN toks : Balance(toks, k) < 0
  THEN CHOOSE k \in DOMAIN toks :
         /\ Balance(toks, k) < 0
         /\ \A j \in 1..(k - 1) : Balance(toks, j) >= 0
  ELSE 0

\* C2: when some LeftParen has no later matching RightParen, getLists fails
\* with a parse error and returns no tree.
C2_UnmatchedLeftParenFails ==
  UnmatchedLeftParen(tokens) => (listRoot = NULL /\ pc # "parsed")

\* C3: when a prefix of the token sequence holds more RightParen than
\* LeftParen tokens, getLists fails at the first RightParen met with an
\* empty ancestor stack, and no tree is returned whatever tokens follow.
C3_UnmatchedRightParenFails ==
  LET k == FirstUnmatchedRightParen(tokens)
  IN  k # 0 =>
        /\ listRoot = NULL
        /\ pc \in {"tokenized", "getLists", "aborted"}
        /\ pc = "getLists" => tokIdx <= k
        /\ pc = "aborted" =>
             /\ err = "unbalanced parentheses"
             /\ tokIdx = k
             /\ nodeStack = <<>>

\* C3 witness: getLists has failed at an unmatched RightParen that has
\* tokens before and after it
C3_Witness ==
  /\ pc = "aborted"
  /\ err = "unbalanced parentheses"
  /\ tokIdx > 1
  /\ tokIdx < Len(tokens)
  /\ FirstUnmatchedRightParen(tokens) = tokIdx

\* C4: tokenize fails with a lex error and returns no token sequence when
\* the scan ends inside a string literal, which is when the text holds an
\* odd number of double quotes; with an even number the unterminated-string
\* error is never raised.
C4_UnterminatedStringFails ==
  /\ (pc = "tokenize" /\ CharAt(text, pEnd) = NUL) =>
       (inString <=> OddQuotes(text))
  /\ OddQuotes(text) =>
       /\ pc \in {"tokenize", "aborted"}
       /\ tokens = <<>>
       /\ listRoot = NULL
       /\ pc = "aborted" => err \in LexErrors
       /\ (pc = "aborted" /\ CharAt(text, pEnd) = NUL) => err = "unmatched quotes"
  /\ ~OddQuotes(text) => err # "unmatched quotes"

\* C4 witness: the scan reached the end of a text inside a string literal,
\* after producing tokens, and failed
C4_Witness ==
  /\ pc = "aborted"
  /\ err = "unmatched quotes"
  /\ CharAt(text, pEnd) = NUL
  /\ Len(outArray) > 0
  /\ OddQuotes(text)

(***************************************************************************)
(* Text runs and numeric literals, read off the source text.               *)
(***************************************************************************)
Digits == {"0", "1", "2", "3", "4", "5", "6", "7", "8", "9"}

\* the characters s .. e - 1 are a decimal integer literal: an optional
\* sign and at least one digit
IsDecimalInteger(txt, s, e) ==
  LET b == IF s < e /\ txt[s] \in {"+", "-"} THEN s + 1 ELSE s
  IN  /\ b < e
      /\ \A i \in b..(e - 1) : txt[i] \in Digits

\* the characters s .. e - 1 are a decimal floating-point literal: an
\* optional sign, digits with at most one point, at least one digit
IsDecimalFloat(txt, s, e) ==
  LET b == IF s < e /\ txt[s] \in {"+", "-"} THEN s + 1 ELSE s
  IN  /\ b < e
      /\ \A i \in b..(e - 1) : txt[i] \in Digits \cup {"."}
      /\ \E i \in b..(e - 1) : txt[i] \in Digits
      /\ Cardinality({i \in b..(e - 1) : txt[i] = "."}) <= 1

\* the pattern occurs at position i of the run s .. e - 1
OccursAt(txt, s, e, pat, i) ==
  /\ i >= s
  /\ i + Len(pat) <= e
  /\ \A j \in 1..Len(pat) : txt[i + j - 1] = pat[j]

Contains(txt, s, e, pat) == \E i \in s..(e - 1) : OccursAt(txt, s, e, pat, i)

EndsWith(txt, s, e, pat) == OccursAt(txt, s, e, pat, e - Len(pat))

\* the first occurrence of the pattern is the run's last characters
OnlyAtEnd(txt, s, e, pat) ==
  /\ EndsWith(txt, s, e, pat)
  /\ \A i \in s..(e - Len(pat) - 1) : ~OccursAt(txt, s, e, pat, i)

SuffixF32 == <<"f", "3", "2">>
SuffixI32 == <<"i", "3", "2">>

\* the end of the run a text token was made from: a numeric token's span
\* leaves the three suffix characters out
RunEnd(t) == IF t.type = "NAME" THEN t.pEnd ELSE t.pEnd + 3

TextTokens == {k \in DOMAIN outArray : outArray[k].type \in TextKinds}

\* C5: a closed run that ends with i32 (f32) and whose prefix is not
\* entirely a decimal integer (floating-point) literal, the empty prefix
\* included, fails with a lex error: every Int32 or Float32 token comes from
\* a run whose prefix is such a literal.
C5_BadPrefixIsLexError ==
  \A k \in DOMAIN outArray :
    LET t == outArray[k]
    IN  /\ t.type = "I32" => IsDecimalInteger(text, t.pStart, t.pEnd)
        /\ t.type = "F32" => IsDecimalFloat(text, t.pStart, t.pEnd)

\* C6 (as stated): a closed run is Float32 if it ends with f32, Int32 if it
\* ends with i32 and Name in every other case, without error: only a run
\* that ends with a suffix can fail.
C6_ClassifiedByEndingAlone ==
  /\ \A k \in TextTokens :
       LET t == outArray[k]
       IN  /\ t.type = "F32" <=> EndsWith(text, t.pStart, RunEnd(t), SuffixF32)
           /\ t.type = "I32" <=> EndsWith(text, t.pStart, RunEnd(t), SuffixI32)
  /\ (pc = "aborted" /\ err \in RunErrors) =>
       \/ EndsWith(text, pStart, pEnd, SuffixF32)
       \/ EndsWith(text, pStart, pEnd, SuffixI32)

\* C6 (amended): a closed run is classified by the suffix text it contains:
\* it yields a Name only if it contains neither f32 nor i32, a Float32 only
\* if its first f32 is its last three characters, an Int32 only if it
\* contains no f32 and its first i32 is its last three characters; a run
\* whose first f32 (or, without f32, first i32) lies elsewhere fails with a
\* lex error; every run closed by a scanned delimiter has its token.
C6_ClassifiedBySuffixOccurrence ==
  /\ \A k \in TextTokens :
       LET t == outArray[k]
           e == RunEnd(t)
       IN  /\ t.type = "NAME" =>
                /\ ~Contains(text, t.pStart, e, SuffixF32)
                /\ ~Contains(text, t.pStart, e, SuffixI32)
           /\ t.type = "F32" => OnlyAtEnd(text, t.pStart, e, SuffixF32)
           /\ t.type = "I32" =>
                /\ ~Contains(text, t.pStart, e, SuffixF32)
                /\ OnlyAtEnd(text, t.pStart, e, SuffixI32)
  /\ \A r \in MaximalRuns(text) :
       r[2] < pEnd =>
         \E k \in TextTokens :
           outArray[k].pStart = r[1] /\ RunEnd(outArray[k]) = r[2]
  /\ (pc = "aborted" /\ err \in RunErrors) =>
       /\ <<pStart, pEnd>> \in MaximalRuns(text)
       /\ err = "f32 should be at the end" =>
            /\ Contains(text, pStart, pEnd, SuffixF32)
            /\ ~OnlyAtEnd(text, pStart, pEnd, SuffixF32)
       /\ err = "error parsing f32" =>
            /\ OnlyAtEnd(text, pStart, pEnd, SuffixF32)
            /\ ~IsDecimalFloat(text, pStart, pEnd - 3)
       /\ err = "i32 should be at the end" =>
            /\ ~Contains(text, pStart, pEnd, SuffixF32)
            /\ Contains(text, pStart, pEnd, SuffixI32)
            /\ ~OnlyAtEnd(text, pStart, pEnd, SuffixI32)
       /\ err = "error parsing i32" =>
            /\ ~Contains(text, pStart, pEnd, SuffixF32)
            /\ OnlyAtEnd(text, pStart, pEnd, SuffixI32)
            /\ ~IsDecimalInteger(text, pStart, pEnd - 3)

\* C6 witness: a closed run that holds f32 but ends with neither suffix has
\* failed the scan
C6_Witness ==
  /\ pc = "aborted"
  /\ err = "f32 should be at the end"
  /\ pStart < pEnd
  /\ ~EndsWith(text, pStart, pEnd, SuffixF32)
  /\ ~EndsWith(text, pStart, pEnd, SuffixI32)

\* C7 (as stated): every token has a non-empty span, none is produced for
\* pure white space, and every LeftParen and RightParen token spans exactly
\* one character.
C7_EverySpanNonEmpty ==
  \A k \in DOMAIN outArray :
    LET t == outArray[k]
    IN  /\ t.pStart < t.pEnd
        /\ t.type # "STRING" =>
             \A i \in t.pStart..(t.pEnd - 1) : text[i] \notin Whitespace
        /\ t.type \in {"LP", "RP"} => t.pEnd = t.pStart + 1

\* C7 (amended): every Name token has a non-empty span, every LeftParen and
\* RightParen token spans exactly its one parenthesis, and no token outside
\* a string literal covers white space; the span of a String token is empty
\* exactly for the literal "", and the span of an Int32 or Float32 token,
\* the text before its suffix, is empty exactly when the run is the bare
\* suffix.
C7_SpansByKind ==
  \A k \in DOMAIN outArray :
    LET t == outArray[k]
    IN  /\ t.pStart >= 1
        /\ t.pStart <= t.pEnd
        /\ t.pEnd <= Len(text) + 1
        /\ t.type # "STRING" =>
             \A i \in t.pStart..(t.pEnd - 1) : text[i] \notin Whitespace
        /\ t.type = "NAME" => t.pStart < t.pEnd
        /\ t.type = "LP" => (t.pEnd = t.pStart + 1 /\ text[t.pStart] = "(")
        /\ t.type = "RP" => (t.pEnd = t.pStart + 1 /\ text[t.pStart] = ")")
        /\ t.type = "STRING" =>
             (t.pStart = t.pEnd <=>
                (CharAt(text, t.pStart - 1) = Quote /\ CharAt(text, t.pStart) = Quote))
        /\ t.type = "I32" =>
             (t.pStart = t.pEnd <=> OccursAt(text, t.pStart, t.pStart + 3, SuffixI32, t.pStart))
        /\ t.type = "F32" =>
             (t.pStart = t.pEnd <=> OccursAt(text, t.pStart, t.pStart + 3, SuffixF32, t.pStart))

\* C7 witness: tokenize has returned a Name token and no other token of a
\* text that holds two adjacent white space characters
C7_Witness ==
  /\ pc = "tokenized"
  /\ \E i \in 1..(Len(text) - 1) : text[i] = " " /\ text[i + 1] = " "
  /\ Len(tokens) = 1
  /\ tokens[1].type = "NAME"

(***************************************************************************)
(* String literals, read off the source text.                              *)
(***************************************************************************)
\* the next double quote from position i on, Len(txt) + 1 when there is none
RECURSIVE NextQuote(_, _)
NextQuote(txt, i) ==
  IF i > Len(txt) \/ txt[i] = Quote THEN i ELSE NextQuote(txt, i + 1)

\* the pairs <<i, j>> of an opening quote i (a quote with an even number of
\* quotes before it) and the next quote j, among the first n characters
StringPairs(txt, n) ==
  { <<i, NextQuote(txt, i + 1)>> :
      i \in {q \in 1..n : /\ q <= Len(txt)
                          /\ txt[q] = Quote
                          /\ QuotesIn(txt, q - 1) % 2 = 0
                          /\ NextQuote(txt, q + 1) <= n} }

\* C8: each pair of an opening double quote and the next double quote yields
\* exactly one String token, whose span is the characters strictly between
\* them; nothing between the quotes acts as a delimiter or produces another
\* token, and the scanner is in Normal state again after the closing quote.
C8_StringLiteralIsOneToken ==
  /\ \A p \in StringPairs(text, pEnd - 1) :
       /\ Cardinality({k \in DOMAIN outArray :
                         /\ outArray[k].type = "STRING"
                         /\ outArray[k].pStart = p[1] + 1
                         /\ outArray[k].pEnd = p[2]}) = 1
       /\ \A k \in DOMAIN outArray :
            (outArray[k].pStart >= p[1] /\ outArray[k].pStart <= p[2]) =>
              /\ outArray[k].type = "STRING"
              /\ outArray[k].pStart = p[1] + 1
              /\ outArray[k].pEnd = p[2]
  /\ \A k \in DOMAIN outArray :
       outArray[k].type = "STRING" =>
         <<outArray[k].pStart - 1, outArray[k].pEnd>> \in StringPairs(text, pEnd - 1)
  /\ pc = "tokenize" => (inString <=> QuotesIn(text, pEnd - 1) % 2 = 1)

\* C8 witness: tokenize has returned a single String token whose body
\* holds a parenthesis or white space
C8_Witness ==
  /\ pc = "tokenized"
  /\ Len(tokens) = 1
  /\ tokens[1].type = "STRING"
  /\ \E i \in tokens[1].pStart..(tokens[1].pEnd - 1) :
       text[i] \in {"(", ")", " "}

(***************************************************************************)
(* The tree as a consumer reads it: a node whose isList is FALSE is an     *)
(* Atom and its child array is not looked at.                              *)
(***************************************************************************)
RECURSIVE AtomCount(_), AtomCountAll(_), ListDepth(_), ListDepthMax(_)
AtomCount(n) ==
  IF nodes[n].isList THEN AtomCountAll(nodes[n].child) ELSE 1

AtomCountAll(ch) ==
  IF ch = <<>> THEN 0 ELSE AtomCount(Head(ch)) + AtomCountAll(Tail(ch))

\* the depth of the deepest list below the list n, n itself at depth 0
ListDepth(n) == ListDepthMax(nodes[n].child)

ListDepthMax(ch) ==
  IF ch = <<>> THEN 0
  ELSE LET rest == ListDepthMax(Tail(ch))
           here == IF nodes[Head(ch)].isList THEN 1 + ListDepth(Head(ch)) ELSE 0
       IN  IF here > rest THEN here ELSE rest

Balanced(toks) ==
  /\ Balance(toks, Len(toks)) = 0
  /\ \A n \in 0..Len(toks) : Balance(toks, n) >= 0

MaxBalance(toks) ==
  CHOOSE b \in 0..Len(toks) :
    /\ \E n \in 0..Len(toks) : Balance(toks, n) = b
    /\ \A n \in 0..Len(toks) : Balance(toks, n) <= b

NonParenCount(toks) ==
  Cardinality({k \in DOMAIN toks : toks[k].type \notin {"LP", "RP"}})

\* C9: for a source with balanced parentheses and no literal error,
\* getLists succeeds and the number of atom nodes of the returned tree is
\* the number of tokens that are neither LeftParen nor RightParen.
C9_AtomCountIsNonParenCount ==
  (TokenizeReturned /\ Balanced(tokens)) =>
    /\ pc # "aborted"
    /\ pc = "parsed" => AtomCount(listRoot) = NonParenCount(tokens)

\* C10: for a well-formed input the nesting depth of the returned tree
\* (root at depth 0, a nested list one deeper than its parent) is the
\* maximum over the prefixes of the token sequence of LeftParen minus
\* RightParen tokens.
C10_DepthIsMaxBalance ==
  (pc = "parsed" /\ Balanced(tokens)) =>
    ListDepth(listRoot) = MaxBalance(tokens)

(***************************************************************************)
(* Nodes and the tokens they were made for: getLists allocates the root    *)
(* first and then one node for every token that is not a RightParen, in    *)
(* token order.                                                            *)
(***************************************************************************)
\* the position of the token the node n >= 2 was made for
NodeTokenIdx(n) ==
  CHOOSE k \in DOMAIN tokens :
    /\ tokens[k].type # "RP"
    /\ Cardinality({j \in 1..k : tokens[j].type # "RP"}) = n - 1

TokenValues == {tokens[k] : k \in DOMAIN tokens}

\* C11: in every returned tree the root and every node made for a LeftParen
\* are List nodes (isList is true) and hold no token, and every node made
\* for another token is an Atom (isList is false) without children that
\* holds exactly that token, never a LeftParen or RightParen.
C11_NodesDiscriminated ==
  pc = "parsed" =>
    /\ nodes[listRoot].isList
    /\ nodes[listRoot].token \notin TokenValues
    /\ \A n \in 2..Len(nodes) :
         LET t == tokens[NodeTokenIdx(n)]
         IN  IF t.type = "LP"
             THEN /\ nodes[n].isList
                  /\ nodes[n].token \notin TokenValues
             ELSE /\ ~nodes[n].isList
                  /\ nodes[n].child = <<>>
                  /\ nodes[n].token = t
                  /\ t.type \notin {"LP", "RP"}

WhitespaceOnly(txt) == \A i \in 1..Len(txt) : txt[i] \in Whitespace

\* C12: for the empty source text and for every text made only of white
\* space, tokenize returns the empty token sequence and getLists returns a
\* root List node without children, without any error.
C12_WhitespaceYieldsEmptyRoot ==
  WhitespaceOnly(text) =>
    /\ pc # "aborted"
    /\ err = NoErr
    /\ outArray = <<>>
    /\ tokens = <<>>
    /\ ~inString
    /\ pc \in {"getLists", "parsed"} =>
         /\ nodes = <<ListNode(TRUE, ZeroToken)>>
         /\ nodeStack = <<>>
         /\ curNode = 1
         /\ tokIdx = 1
    /\ pc = "parsed" =>
         /\ listRoot = 1
         /\ nodes[listRoot].isList
         /\ nodes[listRoot].child = <<>>

\* C12 witness: parse holds the tree of a text of three or more white space
\* characters, a tab and a line feed among them
C12_Witness ==
  /\ pc = "parsed"
  /\ WhitespaceOnly(text)
  /\ Len(text) >= 3
  /\ \E i \in 1..Len(text) : text[i] = "\t"
  /\ \E i \in 1..Len(text) : text[i] = "\n"

(***************************************************************************)
(* The pre-order walk of the tree: a LeftParen on entering a list, a       *)
(* RightParen on leaving it, the held token at an atom.  Parentheses are   *)
(* compared by kind, other tokens whole.                                   *)
(***************************************************************************)
Item(t) ==
  IF t.type \in {"LP", "RP"} THEN Token(t.type, NULL, NULL, FloatZero, 0) ELSE t

RECURSIVE Walk(_), WalkAll(_)
Walk(n) ==
  IF nodes[n].isList
  THEN <<Item(Token("LP", NULL, NULL, FloatZero, 0))>>
         \o WalkAll(nodes[n].child)
         \o <<Item(Token("RP", NULL, NULL, FloatZero, 0))>>
  ELSE <<Item(nodes[n].token)>>

WalkAll(ch) ==
  IF ch = <<>> THEN <<>> ELSE Walk(Head(ch)) \o WalkAll(Tail(ch))

\* C13: for a balanced token sequence the pre-order walk of the returned
\* tree reproduces the token sequence exactly: same tokens, same order,
\* none dropped or duplicated.
C13_WalkReproducesTokens ==
  (pc = "parsed" /\ Balanced(tokens)) =>
    WalkAll(nodes[listRoot].child) = [k \in DOMAIN tokens |-> Item(tokens[k])]

\* getLists has started; its variables show the state after the first
\* tokIdx - 1 tokens, also after the assert failed at token tokIdx
GetListsStarted == nodes # <<>>

LastChild(n) == nodes[n].child[Len(nodes[n].child)]

\* C14: after getLists has processed a prefix of the token sequence without
\* failing, the size of the ancestor stack is the number of LeftParen minus
\* RightParen tokens of the prefix, the bottom entry is the root, each entry
\* is the parent of the entry above it, and the current list is the last
\* child of the top entry, or the root when the stack is empty.
C14_StackIsAncestorPath ==
  GetListsStarted =>
    /\ tokIdx \in 1..(Len(tokens) + 1)
    /\ Len(nodeStack) = Balance(tokens, tokIdx - 1)
    /\ nodeStack # <<>> => nodeStack[1] = 1
    /\ \A i \in 1..(Len(nodeStack) - 1) :
         /\ nodes[nodeStack[i]].child # <<>>
         /\ LastChild(nodeStack[i]) = nodeStack[i + 1]
    /\ IF nodeStack = <<>>
       THEN curNode = 1
       ELSE /\ nodes[nodeStack[Len(nodeStack)]].child # <<>>
            /\ LastChild(nodeStack[Len(nodeStack)]) = curNode

\* C14 witness: two lists are open below the root and a third has been
\* closed again
C14_Witness ==
  /\ pc = "getLists"
  /\ Len(nodeStack) = 2
  /\ nodes[curNode].child # <<>>
  /\ \E k \in 1..(tokIdx - 1) : tokens[k].type = "RP"

(***************************************************************************)
(* White space insensitivity.                                              *)
(***************************************************************************)
\* tokenize's locals when it ended, from the state
TokenizeEnded ==
  pc \in {"tokenized", "getLists", "parsed"} \/ (pc = "aborted" /\ nodes = <<>>)

\* the function tokenize and the actions end in the same tokens and error
TokenizeAgrees ==
  TokenizeEnded =>
    LET r == tokenize(text)
    IN  /\ r.outArray = outArray
        /\ r.err = (IF pc = "aborted" /\ nodes = <<>> THEN err ELSE NoErr)
        /\ r.err = NoErr => (r.pEnd = pEnd /\ r.pStart = pStart)

MaxWs == 2

WhitespaceSeqs == UNION {[1..n -> Whitespace] : n \in 1..MaxWs}

\* what a caller sees of tokenize(txt): the error, or the kinds, span texts
\* and values of the tokens
Outcome(txt, out, e) ==
  IF e # NoErr THEN <<"error", e>>
  ELSE <<"tokens",
         [k \in DOMAIN out |->
            [type |-> out[k].type,
             span |-> SubSeq(txt, out[k].pStart, out[k].pEnd - 1),
             f32 |-> out[k].f32,
             i32 |-> out[k].i32]]>>

OutcomeOf(txt) == LET r == tokenize(txt) IN Outcome(txt, r.outArray, r.err)

\* the texts got from txt by replacing one white space character outside a
\* string literal by a white space sequence, or by adding one before the
\* first or (when txt does not end inside a string) after the last character
WhitespaceVariants(txt) ==
  { SubSeq(txt, 1, i - 1) \o w \o SubSeq(txt, i + 1, Len(txt)) :
      i \in {j \in 1..Len(txt) : txt[j] \in Whitespace /\ QuotesIn(txt, j - 1) % 2 = 0},
      w \in WhitespaceSeqs }
  \cup { w \o txt : w \in WhitespaceSeqs }
  \cup (IF OddQuotes(txt) THEN {} ELSE { txt \o w : w \in WhitespaceSeqs })

\* C15: replacing a white space character outside a string literal by any
\* non-empty white space sequence, or adding white space before the first
\* or after the last character, leaves the outcome of tokenize unchanged:
\* the same error, or the same token kinds, span texts and values.
C15_WhitespaceInsensitive ==
  (TokenizeEnded /\ pc \in {"tokenized", "aborted"}) =>
    \A v \in WhitespaceVariants(text) :
      OutcomeOf(v) = Outcome(text, outArray, IF pc = "aborted" THEN err ELSE NoErr)

(***************************************************************************)
(* Errors of a source text, read off the text.                             *)
(***************************************************************************)
\* the run r ends with a numeric suffix and the text before the suffix is
\* not a literal of that kind
BadNumericRun(txt, r) ==
  \/ /\ EndsWith(txt, r[1], r[2], SuffixI32)
     /\ ~IsDecimalInteger(txt, r[1], r[2] - 3)
  \/ /\ EndsWith(txt, r[1], r[2], SuffixF32)
     /\ ~IsDecimalFloat(txt, r[1], r[2] - 3)

HasLexicalError(txt) ==
  \/ OddQuotes(txt)
  \/ \E r \in MaximalRuns(txt) : BadNumericRun(txt, r)

\* left minus right parentheses outside string literals among the first n
\* characters
ParenBalance(txt, n) ==
  Cardinality({i \in 1..n : txt[i] = "(" /\ QuotesIn(txt, i - 1) % 2 = 0})
    - Cardinality({i \in 1..n : txt[i] = ")" /\ QuotesIn(txt, i - 1) % 2 = 0})

UnbalancedParens(txt) ==
  \/ ParenBalance(txt, Len(txt)) # 0
  \/ \E n \in 1..Len(txt) : ParenBalance(txt, n) < 0

\* C16: tree building starts only after tokenize has finished: for a
\* source text that has both a lexical error (unterminated string or bad
\* numeric prefix) and unbalanced parentheses, the failure reported is the
\* lexical one and no step of getLists is ever executed.
C16_LexicalErrorComesFirst ==
  (HasLexicalError(text) /\ UnbalancedParens(text)) =>
    /\ pc \in {"tokenize", "aborted"}
    /\ pc = "aborted" => err \in LexErrors
    /\ nodes = <<>>
    /\ tokIdx = 0
    /\ listRoot = NULL

\* C17: tokenize terminates, with a token sequence or an error: the cursor
\* advances by exactly one character in every loop step and never moves
\* back, so a scan that returns has taken as many steps as the text has
\* characters; and getLists terminates after examining each token once.
C17_ScansTerminate ==
  /\ [][/\ (pc = "tokenize" /\ pc' = "tokenize") => pEnd' = pEnd + 1
        /\ (pc = "tokenize" /\ pc' # "tokenize") => pEnd' = pEnd
        /\ (pc = "tokenize" /\ pc' = "tokenized") => pEnd = Len(text) + 1
        /\ (pc = "getLists" /\ pc' = "getLists") => tokIdx' = tokIdx + 1
        /\ (pc = "getLists" /\ pc' # "getLists") => tokIdx' = tokIdx
        /\ (pc = "getLists" /\ pc' = "parsed") => tokIdx = Len(tokens) + 1]_vars
  /\ [](pEnd \in 1..(Len(text) + 1))
  /\ [](pc \in {"getLists", "parsed"} => tokIdx \in 1..(Len(tokens) + 1))
  /\ <>(pc # "tokenize")
  /\ <>(pc \in {"parsed", "aborted"})

\* C17 witness: both loops have run to their ends on a text of at least
\* four characters and two tokens
C17_Witness ==
  /\ pc = "parsed"
  /\ Len(text) >= 4
  /\ pEnd = Len(text) + 1
  /\ Len(tokens) >= 2
  /\ tokIdx = Len(tokens) + 1

\* C18: the tokens appear in source order with pairwise disjoint spans (the
\* end of an earlier token is not after the start of a later one), every
\* span lies within the source text, and during the scan pStart never
\* exceeds pEnd by more than one.
C18_SpansOrderedWithinText ==
  /\ \A k \in DOMAIN outArray :
       /\ 1 <= outArray[k].pStart
       /\ outArray[k].pStart <= outArray[k].pEnd
       /\ outArray[k].pEnd <= Len(text) + 1
  /\ \A j, k \in DOMAIN outArray :
       j < k => outArray[j].pEnd <= outArray[k].pStart
  /\ \A k \in DOMAIN outArray : outArray[k].pEnd <= pEnd
  /\ pStart <= pEnd + 1
  /\ tokens \in {<<>>, outArray}

\* C18 witness: a returned scan of at least three tokens, two of them
\* adjacent in the text and two of them apart
C18_Witness ==
  /\ pc = "tokenized"
  /\ Len(tokens) >= 3
  /\ \E k \in 1..(Len(tokens) - 1) : tokens[k].pEnd = tokens[k + 1].pStart
  /\ \E k \in 1..(Len(tokens) - 1) : tokens[k].pEnd < tokens[k + 1].pStart
  /\ \E k \in DOMAIN tokens : tokens[k].pEnd > tokens[k].pStart + 1

====
